---- MODULE Spec2Model ----
(***************************************************************************)
(* The download orchestration layer of src/app.py: the ledger (the sqlite  *)
(* table `downloads`), the request handler download_video, the worker     *)
(* download_task run by DOWNLOAD_EXECUTOR, the sweeper cleanup_old_files   *)
(* and the gateway download_file.                                          *)
(***************************************************************************)
EXTENDS Integers, Sequences, FiniteSets, TLC

(***************************************************************************)
(* Bounds of the model.                                                    *)
(***************************************************************************)
\* number of job ids (uuid4 values) that can be drawn
MaxJobs == 2
\* the clock (UTC) runs from 0 to MaxTime, one unit = 6 hours
MaxTime == 5
\* under a burst, the submissions beyond the pool's capacity
MaxQueued == 1

(***************************************************************************)
(* Program constants.                                                      *)
(***************************************************************************)
\* app.py:51
MAX_CONCURRENT_DOWNLOADS == 4
\* app.py:50, timedelta(hours=24) in clock units
CLEANUP_OLDER_THAN == 4

\* str(uuid.uuid4()): its first 8 characters and the rest
Uuid(prefix, rest) == <<prefix, rest>>

\* uuids that differ in their first 8 characters
JobIds == {Uuid(k, k) : k \in 1..MaxJobs}
Times == 0..MaxTime
\* the sizes a downloaded file may have: empty, or not
FileSizes == {0, 1}
\* the URLs clients ask for; NoUrl is a request body without `url`
Urls == {"u1", "u2"}
NoUrl == "nourl"
\* the request threads of the server
Handlers == {"h1", "h2"}

\* SQL NULL / Python None for a nullable value v: <<>>, a value: <<v>>
NULL == <<>>
Some(v) == <<v>>

VARIABLES
  ledger,    \* the table `downloads`: download id -> row
  files,     \* DOWNLOAD_FOLDER: filename -> size in bytes
  queue,     \* DOWNLOAD_EXECUTOR's work queue (FIFO of work items)
  running,   \* work items a pool thread is executing
  hs,        \* request threads: handler -> its position and locals
  nextId,    \* the next unused uuid4
  now,       \* the clock
  cleanup,   \* cleanup_old_files: NULL when idle, else <<cutoff, failed unlinks>>
  resp,      \* the response the step just taken returned, NULL if none
  call,      \* the last direct call of a ledger operation and its outcome
  gw         \* one request to download_file: its input and its response

vars == <<ledger, files, queue, running, hs, nextId, now, cleanup, resp,
          call, gw>>

(***************************************************************************)
(* The ledger: table `downloads` and the functions that read and write it. *)
(***************************************************************************)
\* hashlib.md5(url.encode()).hexdigest(): the fingerprint of a URL
UrlHash(url) == <<"md5", url>>

\* download_id[:8], the short prefix of a uuid4 used in the filename
Prefix(download_id) == download_id[1]

\* the title the metadata probe returns for a URL (both URLs carry the
\* same title: the case where only the id prefix tells two files apart)
TitleOf(url) == "Clip"

\* f"{safe_title}_{download_id[:8]}.mp4"
Filename(title, download_id) ==
  [title |-> title, prefix |-> Prefix(download_id), ext |-> "mp4"]

\* Path.with_suffix
WithSuffix(f, ext) == [f EXCEPT !.ext = ext]

\* DOWNLOAD_FOLDER.glob(f"{filepath.stem}*"): the files named after the stem
Glob(fs, filepath) ==
  {f \in DOMAIN fs : f.title = filepath.title /\ f.prefix = filepath.prefix}

Rows(l) == DOMAIN l

\* INSERT INTO downloads (id, filename, url, url_hash, status, ip_address)
\* completed_at and filesize start as NULL; id is the PRIMARY KEY
record_download_start(l, download_id, filename, url) ==
  (download_id :> [filename |-> filename, url |-> url, url_hash |-> UrlHash(url),
                   status |-> "started", completed_at |-> NULL,
                   filesize |-> NULL]) @@ l

\* the UPDATE with WHERE url_hash = (that of the id) in place of WHERE id = ?
record_download_complete_by_hash(l, download_id, filesize, t) ==
  [id \in Rows(l) |->
     IF download_id \in Rows(l) /\ l[id].url_hash = l[download_id].url_hash
       THEN [l[id] EXCEPT !.status = "completed",
                          !.completed_at = Some(t),
                          !.filesize = Some(filesize)]
       ELSE l[id]]

\* UPDATE downloads SET status='completed', completed_at=CURRENT_TIMESTAMP,
\* filesize=? WHERE id=?  : every row with that id, whatever its status;
\* no row with that id: nothing is updated and nothing is raised
record_download_complete(l, download_id, filesize, t) ==
  [id \in Rows(l) |->
     IF id = download_id
       THEN [l[id] EXCEPT !.status = "completed",
                          !.completed_at = Some(t),
                          !.filesize = Some(filesize)]
       ELSE l[id]]

\* the completed rows of a fingerprint
CompletedFor(l, url) ==
  {id \in Rows(l) : l[id].url_hash = UrlHash(url) /\ l[id].status = "completed"}

\* ORDER BY completed_at ASC in place of DESC
OldestCompleted(l, url) ==
  {id \in CompletedFor(l, url) :
     \A o \in CompletedFor(l, url) : l[id].completed_at[1] <= l[o].completed_at[1]}

\* SELECT filename ... WHERE url_hash=? AND status='completed'
\* ORDER BY completed_at DESC LIMIT 1: the rows the query may return; rows
\* with equal completed_at come in no defined order
LatestCompleted(l, url) ==
  {id \in CompletedFor(l, url) :
     \A o \in CompletedFor(l, url) : l[o].completed_at[1] <= l[id].completed_at[1]}

\* the query without its ORDER BY: any completed row of the fingerprint
check_existing_download_unordered(l, url) ==
  IF CompletedFor(l, url) = {}
    THEN {NULL}
    ELSE {Some(l[id].filename) : id \in CompletedFor(l, url)}

\* check_existing_download: the values it may return, NULL for None
check_existing_download(l, url) ==
  IF CompletedFor(l, url) = {}
    THEN {NULL}
    ELSE {Some(l[id].filename) : id \in LatestCompleted(l, url)}

(***************************************************************************)
(* The request handler download_video (POST /api/download).  A handler is  *)
(* idle, past its ledger lookup ("checked"), or past its insert            *)
(* ("recorded"); job is the download_id it drew.                           *)
(***************************************************************************)
HandlerIdle == [pc |-> "idle", url |-> NoUrl, job |-> NULL]

ErrorResponse(code) ==
  [code |-> code, success |-> FALSE, cached |-> FALSE,
   filename |-> NULL, download_id |-> NULL]

CachedResponse(existing_file) ==
  [code |-> 200, success |-> TRUE, cached |-> TRUE,
   filename |-> existing_file, download_id |-> NULL]

StartedResponse(filename, download_id) ==
  [code |-> 200, success |-> TRUE, cached |-> FALSE,
   filename |-> Some(filename), download_id |-> Some(download_id)]

\* download_video up to the lookup: `if not url` -> 400; existing_file =
\* check_existing_download(url); a hit returns the cached response at once
Request(h, url) ==
  /\ hs[h].pc = "idle"
  /\ IF url = NoUrl
       THEN /\ resp' = Some(ErrorResponse(400))
            /\ hs' = hs
       ELSE \E existing_file \in check_existing_download(ledger, url) :
              IF existing_file # NULL
                THEN /\ resp' = Some(CachedResponse(existing_file))
                     /\ hs' = hs
                ELSE /\ resp' = NULL
                     /\ hs' = [hs EXCEPT ![h] = [pc |-> "checked", url |-> url,
                                                 job |-> NULL]]
  /\ UNCHANGED <<call, gw, ledger, files, queue, running, nextId, now, cleanup>>

\* get_video_info_cached raises: the except branch answers 500
ProbeFails(h) ==
  /\ hs[h].pc = "checked"
  /\ resp' = Some(ErrorResponse(500))
  /\ hs' = [hs EXCEPT ![h] = HandlerIdle]
  /\ UNCHANGED <<call, gw, ledger, files, queue, running, nextId, now, cleanup>>

\* the ids uuid.uuid4() can still return, below a cap: an unused one; its
\* first 8 characters are new too, or (collide) may be those of an earlier
\* id
FreshIds(cap, collide) ==
  IF nextId > cap THEN {}
  ELSE {Uuid(p, nextId) : p \in IF collide THEN 1..nextId ELSE {nextId}}

\* the probe returns a title; download_id = str(uuid.uuid4()); filename;
\* record_download_start(download_id, filename, url, ip_address)
Record(h, cap, collide) ==
  /\ hs[h].pc = "checked"
  /\ \E download_id \in FreshIds(cap, collide) :
       LET filename == Filename(TitleOf(hs[h].url), download_id)
       IN /\ ledger' = record_download_start(ledger, download_id, filename,
                                             hs[h].url)
          /\ hs' = [hs EXCEPT ![h].pc = "recorded", ![h].job = Some(download_id)]
  /\ nextId' = nextId + 1
  /\ resp' = NULL
  /\ UNCHANGED <<call, gw, files, queue, running, now, cleanup>>

\* the INSERT of a record_download_start that raises, had it been committed
record_download_start_kept(l, download_id, filename, url) ==
  record_download_start(l, download_id, filename, url)

\* the ledger after a record_download_start that raises (the INSERT, or the
\* commit after it): get_db closes the connection without a commit, and
\* the table holds no row of the call
record_download_start_raised(l, download_id, filename, url) == l

\* record_download_start raises: the except branch answers 500 before
\* DOWNLOAD_EXECUTOR.submit is reached; the uuid drawn stays unused
RecordFails(h, cap) ==
  /\ hs[h].pc = "checked"
  /\ \E download_id \in FreshIds(cap, FALSE) :
       ledger' = record_download_start_raised(
                   ledger, download_id,
                   Filename(TitleOf(hs[h].url), download_id), hs[h].url)
  /\ resp' = Some(ErrorResponse(500))
  /\ hs' = [hs EXCEPT ![h] = HandlerIdle]
  /\ UNCHANGED <<call, gw, files, queue, running, nextId, now, cleanup>>

\* the work item DOWNLOAD_EXECUTOR.submit is given
WorkItem(url, filepath, download_id) ==
  [url |-> url, filepath |-> filepath, download_id |-> download_id]

\* ThreadPoolExecutor.submit: the item joins the work queue, whatever the
\* pool threads are doing (r: the items being executed)
Submitted(q, r, item) == Append(q, item)

\* a submit that waits for a free pool thread
CanSubmitWhenIdle(q, r) == q = <<>> /\ Cardinality(r) < MAX_CONCURRENT_DOWNLOADS

\* ThreadPoolExecutor.submit returns at once: its work queue is unbounded
\* and it waits for no pool thread
CanSubmit(q, r) == TRUE

\* DOWNLOAD_EXECUTOR.submit(download_task, url, format_id, filepath,
\* download_id) and the 'Download started' response
Submit(h) ==
  /\ hs[h].pc = "recorded"
  /\ CanSubmit(queue, running)
  /\ LET download_id == hs[h].job[1]
         filename == Filename(TitleOf(hs[h].url), download_id)
     IN /\ queue' = Submitted(queue, running,
                              WorkItem(hs[h].url, filename, download_id))
        /\ resp' = Some(StartedResponse(filename, download_id))
  /\ hs' = [hs EXCEPT ![h] = HandlerIdle]
  /\ UNCHANGED <<call, gw, ledger, files, running, nextId, now, cleanup>>

(***************************************************************************)
(* The worker pool DOWNLOAD_EXECUTOR and the task download_task.           *)
(***************************************************************************)
\* what ydl.download([url]) may do: raise, leave the file at filepath, leave
\* it under the same stem with another extension, or leave nothing
ToolOutcomes ==
  {[kind |-> k, size |-> 0] : k \in {"raise", "none"}}
    \cup {[kind |-> k, size |-> n] : k \in {"mp4", "other"}, n \in FileSizes}

\* the extension of a file the tool did not leave as .mp4
OtherExt == "webm"

\* the disk after ydl.download
AfterTool(fs, filepath, outcome) ==
  CASE outcome.kind = "mp4"   -> (filepath :> outcome.size) @@ fs
    [] outcome.kind = "other" ->
         (WithSuffix(filepath, OtherExt) :> outcome.size) @@ fs
    [] OTHER                  -> fs

\* filepath.rename(new_path)
Rename(fs, old, new) ==
  [f \in (DOMAIN fs \ {old}) \cup {new} |-> IF f = new THEN fs[old] ELSE fs[f]]

\* a pool that counts its threads wrongly by one
IdleThreadOffByOne(r) == Cardinality(r) <= MAX_CONCURRENT_DOWNLOADS

\* a ThreadPoolExecutor with max_workers threads: an idle thread exists
\* while fewer than max_workers items are being executed
IdleThread(r) == Cardinality(r) < MAX_CONCURRENT_DOWNLOADS

\* a pool thread takes the oldest item of the work queue
WorkerStart ==
  /\ queue # <<>>
  /\ IdleThread(running)
  /\ running' = running \cup {Head(queue)}
  /\ queue' = Tail(queue)
  /\ resp' = NULL
  /\ UNCHANGED <<call, gw, ledger, files, hs, nextId, now, cleanup>>

\* download_task after ydl.download returned: `if not filepath.exists()`
\* look for the stem and rename to .mp4; `if filepath.exists()` record the
\* completion with the file's size, else only log
TaskReturned(item, fs1, found) ==
  LET reconcile == item.filepath \notin DOMAIN fs1 /\ found # NULL
      new_path == IF reconcile /\ found[1].ext # "mp4"
                    THEN WithSuffix(found[1], "mp4")
                    ELSE IF reconcile THEN found[1] ELSE item.filepath
      fs2 == IF reconcile /\ found[1].ext # "mp4"
               THEN Rename(fs1, found[1], new_path)
               ELSE fs1
  IN /\ files' = fs2
     /\ ledger' = IF new_path \in DOMAIN fs2
                    THEN record_download_complete(ledger, item.download_id,
                                                  fs2[new_path], now)
                    ELSE ledger

\* download_task raised inside the try: `except Exception` logs, nothing
\* else happens
TaskRaised(item) == UNCHANGED <<call, gw, files, ledger>>

\* one run of download_task by a pool thread, to its end
WorkerRun(item, outcome) ==
  /\ item \in running
  /\ LET fs1 == AfterTool(files, item.filepath, outcome)
     IN IF outcome.kind = "raise"
          THEN TaskRaised(item)
          ELSE \E found \in IF Glob(fs1, item.filepath) = {}
                               THEN {NULL}
                               ELSE {Some(f) : f \in Glob(fs1, item.filepath)} :
                 TaskReturned(item, fs1, found)
  /\ running' = running \ {item}
  /\ resp' = NULL
  /\ UNCHANGED <<call, gw, queue, hs, nextId, now, cleanup>>

\* a selection that also takes the rows completed at the cutoff
OlderThanOrAt(l, cutoff) ==
  {id \in Rows(l) : /\ l[id].status = "completed"
                     /\ l[id].completed_at # NULL
                     /\ l[id].completed_at[1] <= cutoff}

(***************************************************************************)
(* The sweeper cleanup_old_files and the clock.                            *)
(***************************************************************************)
\* WHERE completed_at < ? AND status = 'completed'
OlderThan(l, cutoff) ==
  {id \in Rows(l) : /\ l[id].status = "completed"
                     /\ l[id].completed_at # NULL
                     /\ l[id].completed_at[1] < cutoff}

\* the files of the selected rows that are on disk
SelectedFiles(l, fs, cutoff) ==
  {l[id].filename : id \in OlderThan(l, cutoff)} \cap DOMAIN fs

\* the files left once those of the selected rows are unlinked, but for
\* the ones whose unlink raised
Unlinked(l, fs, cutoff, failed) ==
  [f \in DOMAIN fs \ (SelectedFiles(l, fs, cutoff) \ failed) |-> fs[f]]

\* the files left when no unlink raises
PurgeFiles(l, fs, cutoff) == Unlinked(l, fs, cutoff, {})

\* the rows left by DELETE FROM downloads WHERE completed_at < ? AND
\* status = 'completed'
PurgeRows(l, cutoff) ==
  [id \in Rows(l) \ OlderThan(l, cutoff) |-> l[id]]

\* a sweep that gives up its DELETE when an unlink has raised
DeleteUnlessError(l, cutoff, failed) ==
  IF failed = {} THEN PurgeRows(l, cutoff) ELSE l

\* the DELETE as the sweep reaches it: each unlink is in its own try, an
\* error is logged and the loop goes on, so the DELETE runs whatever
\* failed
DeleteAfterUnlinks(l, cutoff, failed) == PurgeRows(l, cutoff)

\* what local time is ahead of UTC, in clock units: UTC-12 to UTC+12
LocalOffsets == (-2)..2

\* datetime.now(): the local wall clock, with no time zone attached;
\* completed_at is CURRENT_TIMESTAMP, which is UTC
LocalNow(t, offset) == t + offset

\* cleanup_old_files, first half: select the old rows with
\* cutoff = now - CLEANUP_OLDER_THAN and unlink their files, some unlinks
\* raising.  When the SELECT returns no row the whole call changes nothing:
\* its DELETE, with the same cutoff, finds no row either, since the cutoff
\* lies before now (the offset is below CLEANUP_OLDER_THAN) and a row
\* completed meanwhile is stamped now or later; the call is then one step.
\* While it runs, cleanup holds the cutoff and the files whose unlink
\* raised.
CleanupFiles(offset) ==
  /\ cleanup = NULL
  /\ LET cutoff == LocalNow(now, offset) - CLEANUP_OLDER_THAN
     IN \E failed \in SUBSET SelectedFiles(ledger, files, cutoff) :
          /\ files' = Unlinked(ledger, files, cutoff, failed)
          /\ cleanup' = IF OlderThan(ledger, cutoff) = {}
                          THEN NULL
                          ELSE <<cutoff, failed>>
  /\ resp' = NULL
  /\ UNCHANGED <<call, gw, ledger, queue, running, hs, nextId, now>>

\* cleanup_old_files, second half: DELETE FROM downloads WHERE
\* completed_at < ? AND status = 'completed'
CleanupRows ==
  /\ cleanup # NULL
  /\ ledger' = DeleteAfterUnlinks(ledger, cleanup[1], cleanup[2])
  /\ cleanup' = NULL
  /\ resp' = NULL
  /\ UNCHANGED <<call, gw, files, queue, running, hs, nextId, now>>

\* time passes
Tick ==
  /\ now < MaxTime
  /\ now' = now + 1
  /\ resp' = NULL
  /\ UNCHANGED <<call, gw, ledger, files, queue, running, hs, nextId, cleanup>>

(***************************************************************************)
(* The service.                                                            *)
(***************************************************************************)
EmptyMap == [x \in {} |-> NULL]

MainInit ==
  /\ ledger = EmptyMap
  /\ files = EmptyMap
  /\ queue = <<>>
  /\ running = {}
  /\ hs = [h \in Handlers |-> HandlerIdle]
  /\ nextId = 1
  /\ now = 0
  /\ cleanup = NULL
  /\ resp = NULL

Init ==
  /\ MainInit
  /\ call = NULL
  /\ gw = NULL

\* every operation of the service; the uuids drawn differ in their first 8
\* characters (NameSpec has the runs in which they do not)
Next ==
  \/ \E h \in Handlers, url \in Urls \cup {NoUrl} : Request(h, url)
  \/ \E h \in Handlers : ProbeFails(h)
  \/ \E h \in Handlers : Record(h, MaxJobs, FALSE)
  \/ \E h \in Handlers : RecordFails(h, MaxJobs)
  \/ \E h \in Handlers : Submit(h)
  \/ WorkerStart
  \/ \E item \in running, outcome \in ToolOutcomes : WorkerRun(item, outcome)
  \/ \E offset \in LocalOffsets : CleanupFiles(offset)
  \/ CleanupRows
  \/ Tick

Spec == Init /\ [][Next]_vars

(***************************************************************************)
(* The service under a burst: both handlers take requests for one URL      *)
(* until MAX_CONCURRENT_DOWNLOADS + MaxQueued jobs exist.  The clock       *)
(* stands at 0, where a sweep selects no row.                              *)
(***************************************************************************)
BurstUrl == "u1"
BurstJobs == MAX_CONCURRENT_DOWNLOADS + MaxQueued

PoolNext ==
  \/ \E h \in Handlers : Request(h, BurstUrl)
  \/ \E h \in Handlers : ProbeFails(h)
  \/ \E h \in Handlers : Record(h, BurstJobs, FALSE)
  \/ \E h \in Handlers : RecordFails(h, BurstJobs)
  \/ \E h \in Handlers : Submit(h)
  \/ WorkerStart
  \/ \E item \in running, outcome \in ToolOutcomes : WorkerRun(item, outcome)

PoolSpec == Init /\ [][PoolNext]_vars

\* ---------------------------------------------------------------------
\* The service taking jobs whose uuids may share their first 8 characters
NameNext ==
  \/ \E h \in Handlers, url \in Urls : Request(h, url)
  \/ \E h \in Handlers : ProbeFails(h)
  \/ \E h \in Handlers : Record(h, MaxJobs, TRUE)
  \/ \E h \in Handlers : RecordFails(h, MaxJobs)
  \/ \E h \in Handlers : Submit(h)
  \/ WorkerStart
  \/ \E item \in running, outcome \in ToolOutcomes : WorkerRun(item, outcome)

NameSpec == Init /\ [][NameNext]_vars

(***************************************************************************)
(* record_download_complete called directly, on any ledger the service can *)
(* hold and with any id, as a caller of the ledger's contract would.       *)
(***************************************************************************)
\* the row record_download_start inserts
StartedRow(id, url) ==
  record_download_start(EmptyMap, id, Filename(TitleOf(url), id), url)[id]

\* the rows an id can have at time t: started, or completed at some time
\* up to t with some size
RowsAt(id, t) ==
  {StartedRow(id, url) : url \in Urls}
    \cup {record_download_complete(id :> StartedRow(id, url), id, size, c)[id] :
            url \in Urls, size \in FileSizes, c \in 0..t}

\* the ledgers the service can hold at time t
LedgersAt(t) ==
  UNION {[ids -> UNION {RowsAt(id, t) : id \in ids}] : ids \in SUBSET JobIds}

WellFormed(l) == \A id \in Rows(l) : l[id].filename.prefix = Prefix(id)

\* whether record_download_complete raises: conn.execute of an UPDATE that
\* matches no row, or a row already completed, raises nothing
record_download_complete_raises(l, download_id) == FALSE

LedgerInit ==
  /\ now = MaxTime
  /\ ledger \in {l \in LedgersAt(MaxTime) : WellFormed(l)}
  /\ nextId = MaxJobs + 1
  /\ files = EmptyMap
  /\ queue = <<>>
  /\ running = {}
  /\ hs = [h \in Handlers |-> HandlerIdle]
  /\ cleanup = NULL
  /\ resp = NULL
  /\ call = NULL
  /\ gw = NULL

\* one direct call record_download_complete(download_id, filesize)
MarkCompleted(download_id, filesize) ==
  /\ call' = Some([download_id |-> download_id, filesize |-> filesize,
                   before |-> ledger,
                   raised |-> record_download_complete_raises(ledger, download_id)])
  /\ ledger' = IF record_download_complete_raises(ledger, download_id)
                 THEN ledger
                 ELSE record_download_complete(ledger, download_id, filesize, now)
  /\ UNCHANGED <<files, queue, running, hs, nextId, now, cleanup, resp, gw>>

LedgerNext ==
  \E download_id \in JobIds, filesize \in FileSizes :
    MarkCompleted(download_id, filesize)

LedgerSpec == LedgerInit /\ [][LedgerNext]_vars

\* ---------------------------------------------------------------------
\* File retrieval: GET /api/downloads/<path:filename> (download_file)
\* A name is a sequence of characters; a path is a record of its parts.

MaxNameTokens == 3

\* the pieces the requested names are built from
NameTokens ==
  { <<"x">>, <<".">>, <<"/">>, <<"\\">>, <<"%">>, <<"2">>, <<"F">>,
    <<"%", "2", "F">>, <<"%", "2", "E">>, <<"%", "5", "C">>,
    <<"%", "2", "5">> }

RECURSIVE NamesOf(_)
NamesOf(n) ==
  IF n = 0 THEN {<<>>}
  ELSE {t \o s : t \in NameTokens, s \in NamesOf(n - 1)}

\* the values the <path:filename> converter can hand over: not empty
RequestedNames ==
  UNION {NamesOf(n) : n \in 1..MaxNameTokens}

\* the hexadecimal digits of the requested names' alphabet, and the
\* characters of the modelled alphabet that \w and \s match
HexDigits == {"2", "5", "C", "E", "F"}
Replacement == "U+FFFD"
WordChars ==
  {"x", "2", "5", "C", "E", "F", "R", "U", "_",
   "a", "c", "d", "e", "f", "i", "l", "m", "n", "p", "t", "u", "4"}
SpaceChars == {" "}

\* the character of the byte %<hi><lo>, decoded as UTF-8 with
\* errors='replace': a byte of 0x80 and above that starts no valid
\* sequence becomes the replacement character
ByteChar(hi, lo) ==
  CASE hi = "2" /\ lo = "2" -> "\""
    [] hi = "2" /\ lo = "5" -> "%"
    [] hi = "2" /\ lo = "C" -> ","
    [] hi = "2" /\ lo = "E" -> "."
    [] hi = "2" /\ lo = "F" -> "/"
    [] hi = "5" /\ lo = "2" -> "R"
    [] hi = "5" /\ lo = "5" -> "U"
    [] hi = "5" /\ lo = "C" -> "\\"
    [] hi = "5" /\ lo = "E" -> "^"
    [] hi = "5" /\ lo = "F" -> "_"
    [] OTHER -> Replacement

\* urllib.parse.unquote: one pass from the left, %XX becomes its
\* character, anything else (an incomplete escape too) stays as it is;
\* the output is not decoded again
RECURSIVE unquote(_)
unquote(s) ==
  IF s = <<>> THEN <<>>
  ELSE IF /\ s[1] = "%" /\ Len(s) >= 3
          /\ s[2] \in HexDigits /\ s[3] \in HexDigits
         THEN <<ByteChar(s[2], s[3])>> \o unquote(SubSeq(s, 4, Len(s)))
         ELSE <<s[1]>> \o unquote(Tail(s))

\* a pattern that only looks at the first character
FILENAME_VALIDATE_PATTERN_first(s) ==
  /\ s # <<>>
  /\ s[1] \in WordChars \cup SpaceChars \cup {"-", ".", "#"}

\* FILENAME_VALIDATE_PATTERN.match: ^[\w\s\-\.#]+$
FILENAME_VALIDATE_PATTERN_match(s) ==
  /\ s # <<>>
  /\ \A i \in 1..Len(s) : s[i] \in WordChars \cup SpaceChars \cup {"-", ".", "#"}

\* the parts of a name between the characters of seps
RECURSIVE SplitOn(_, _)
SplitOn(s, seps) ==
  IF \A i \in 1..Len(s) : s[i] \notin seps THEN <<s>>
  ELSE LET i == CHOOSE k \in 1..Len(s) :
                  /\ s[k] \in seps
                  /\ \A j \in 1..(k - 1) : s[j] \notin seps
       IN <<SubSeq(s, 1, i - 1)>> \o SplitOn(SubSeq(s, i + 1, Len(s)), seps)

\* the working directory of the process and Path('downloads')
Cwd == << <<"s", "r", "v">> >>
DOWNLOAD_FOLDER ==
  [anchored |-> FALSE, parts |-> << <<"d", "o", "w", "n", "l", "o", "a", "d", "s">> >>]

\* pathlib's p / name: an absolute name replaces p
PathJoin(p, name) ==
  IF name # <<>> /\ name[1] = "/"
    THEN [anchored |-> TRUE, parts |-> SplitOn(name, {"/"})]
    ELSE [anchored |-> p.anchored, parts |-> p.parts \o SplitOn(name, {"/"})]

\* the normal form of absolute parts: empty and "." parts vanish, ".."
\* removes the part before it (and stays at the top)
RECURSIVE Normal(_, _)
Normal(parts, acc) ==
  IF parts = <<>> THEN acc
  ELSE LET p == Head(parts)
       IN IF p = <<>> \/ p = <<".">> THEN Normal(Tail(parts), acc)
          ELSE IF p = <<".", ".">>
                 THEN Normal(Tail(parts),
                             IF acc = <<>> THEN acc
                             ELSE SubSeq(acc, 1, Len(acc) - 1))
                 ELSE Normal(Tail(parts), Append(acc, p))

\* Path.resolve(): absolute and normal (the folder holds no symlinks)
resolve(p) ==
  Normal((IF p.anchored THEN <<>> ELSE Cwd) \o p.parts, <<>>)

\* Path.relative_to(other): TRUE when it returns, FALSE when it raises
\* ValueError
relative_to(r, other) ==
  /\ Len(r) >= Len(other)
  /\ SubSeq(r, 1, Len(other)) = other

\* a file system on which everything looks like a non-empty file
KindAtAnyFile(at, p) == "file"

\* what is at a path: the download folder and the directories above it
\* are directories; inside the folder there is what `at` says; anywhere
\* else there is a readable file
FileKinds == {"absent", "empty", "file"}
KindAt(at, p) ==
  LET r == resolve(p)
  IN IF relative_to(resolve(DOWNLOAD_FOLDER), r) THEN "dir"
     ELSE IF relative_to(r, resolve(DOWNLOAD_FOLDER)) THEN at
     ELSE "file"

\* the answer of download_file: its status code, the path whose content
\* is handed out, and whether the file system was asked about the file
GwResponse(code, served, touched) ==
  [code |-> code, served |-> served, touched |-> touched]

download_file(filename, at, x_sendfile) ==
  LET decoded_filename == unquote(filename)
      file_path == PathJoin(DOWNLOAD_FOLDER, decoded_filename)
      kind == KindAt(at, file_path)
  IN IF ~FILENAME_VALIDATE_PATTERN_match(decoded_filename)
       THEN GwResponse(400, NULL, FALSE)
     ELSE IF ~relative_to(resolve(file_path), resolve(DOWNLOAD_FOLDER))
       THEN GwResponse(400, NULL, FALSE)
     ELSE IF kind = "absent"
       THEN GwResponse(404, NULL, TRUE)
     ELSE IF kind = "empty"
       THEN GwResponse(500, NULL, TRUE)
     ELSE IF kind = "dir" /\ ~x_sendfile
       THEN GwResponse(500, NULL, TRUE)
     ELSE GwResponse(200, Some(resolve(file_path)), TRUE)

GatewayInit ==
  /\ MainInit
  /\ call = NULL
  /\ gw \in {Some([filename |-> f, at |-> a, x_sendfile |-> x, resp |-> NULL]) :
               f \in RequestedNames, a \in FileKinds, x \in BOOLEAN}

\* one GET /api/downloads/<filename>
Serve ==
  /\ gw # NULL /\ gw[1].resp = NULL
  /\ gw' = Some([gw[1] EXCEPT
                   !.resp = Some(download_file(gw[1].filename, gw[1].at,
                                               gw[1].x_sendfile))])
  /\ UNCHANGED <<ledger, files, queue, running, hs, nextId, now, cleanup,
                 resp, call>>

GatewayNext == Serve

GatewaySpec == GatewayInit /\ [][GatewayNext]_vars

\* ---------------------------------------------------------------------
\* Status polling: GET /api/status/<download_id> (download_status)

\* urllib.parse.quote of a filename, as put into the download URL
Quoted(filename) == <<"quote", filename>>

StatusResponse(code, status, filename, download_url) ==
  [code |-> code, status |-> status, filename |-> filename,
   download_url |-> download_url]

\* a handler that builds the download URL for every row
download_status_always_url(l, download_id) ==
  IF download_id \notin Rows(l)
    THEN StatusResponse(404, NULL, NULL, NULL)
    ELSE StatusResponse(200, Some(l[download_id].status),
                        Some(l[download_id].filename),
                        Some(<<"/api/downloads/", Quoted(l[download_id].filename)>>))

\* SELECT status, filename FROM downloads WHERE id = ?; no row: 404;
\* download_url is built only for a completed row
download_status(l, download_id) ==
  IF download_id \notin Rows(l)
    THEN StatusResponse(404, NULL, NULL, NULL)
    ELSE StatusResponse(200, Some(l[download_id].status),
                        Some(l[download_id].filename),
                        IF l[download_id].status = "completed"
                          THEN Some(<<"/api/downloads/", Quoted(l[download_id].filename)>>)
                          ELSE NULL)

\* the files a ledger's rows can have on disk: those of completed rows,
\* each there with the recorded size, or gone
FilesOf(l) ==
  LET done == {id \in Rows(l) : l[id].status = "completed"}
  IN {[f \in {l[id].filename : id \in kept} |->
         l[CHOOSE id \in kept : l[id].filename = f].filesize[1]] :
        kept \in SUBSET done}

StatusInit ==
  /\ now = MaxTime
  /\ ledger \in {l \in LedgersAt(MaxTime) : WellFormed(l)}
  /\ files \in FilesOf(ledger)
  /\ nextId = MaxJobs + 1
  /\ queue = <<>>
  /\ running = {}
  /\ hs = [h \in Handlers |-> HandlerIdle]
  /\ cleanup = NULL
  /\ resp = NULL
  /\ call = NULL
  /\ gw = NULL

\* one GET /api/status/<download_id>
GetStatus(download_id) ==
  /\ call' = Some([download_id |-> download_id, before |-> ledger,
                   answer |-> download_status(ledger, download_id)])
  /\ UNCHANGED <<ledger, files, queue, running, hs, nextId, now, cleanup,
                 resp, gw>>

StatusNext == \E download_id \in JobIds : GetStatus(download_id)

StatusSpec == StatusInit /\ [][StatusNext]_vars

\* ---------------------------------------------------------------------
\* The filename sanitizer sanitize_filename.  A string is a sequence of
\* runs, a run being a character and the number of times it is repeated;
\* two neighbouring runs never carry the same character.

MAX_FILENAME_LENGTH == 100

MaxRuns == 2

Run(c, n) == [c |-> c, n |-> n]

\* the characters of FILENAME_SANITIZE_PATTERN: [\\/*?:"<>|]
SanitizedChars == {"\\", "/", "*", "?", ":", "\"", "<", ">", "|"}

\* the characters and run lengths the titles are made of
Emoji == "U+1F525"
TitleChars == {"a", " ", "_", "?", "/", "'", ",", "[", Emoji}
RunLengths == {1, MAX_FILENAME_LENGTH - 1, MAX_FILENAME_LENGTH,
               MAX_FILENAME_LENGTH + 1}

RECURSIVE StrLen(_)
StrLen(s) == IF s = <<>> THEN 0 ELSE Head(s).n + StrLen(Tail(s))

\* the same string with neighbouring runs of one character joined
RECURSIVE Joined(_)
Joined(s) ==
  IF Len(s) <= 1 THEN s
  ELSE IF s[1].c = s[2].c
         THEN Joined(<<Run(s[1].c, s[1].n + s[2].n)>> \o SubSeq(s, 3, Len(s)))
         ELSE <<s[1]>> \o Joined(Tail(s))

RECURSIVE StringsOf(_)
StringsOf(k) ==
  IF k = 0 THEN {<<>>}
  ELSE {<<Run(c, n)>> \o s : c \in TitleChars, n \in RunLengths,
                             s \in StringsOf(k - 1)}

\* the titles handed to the sanitizer: the empty one too
Titles == {Joined(s) : s \in UNION {StringsOf(k) : k \in 0..MaxRuns}}

\* "untitled"
Untitled ==
  <<Run("u", 1), Run("n", 1), Run("t", 1), Run("i", 1), Run("t", 1),
    Run("l", 1), Run("e", 1), Run("d", 1)>>

\* FILENAME_SANITIZE_PATTERN.sub("_", filename)
Substituted(s) ==
  Joined([i \in 1..Len(s) |->
            IF s[i].c \in SanitizedChars THEN Run("_", s[i].n) ELSE s[i]])

\* a slice that keeps the whole string
SliceAll(s, k) == s

\* filename[:k]
RECURSIVE Slice(_, _)
Slice(s, k) ==
  IF s = <<>> \/ k <= 0 THEN <<>>
  ELSE IF Head(s).n >= k THEN <<Run(Head(s).c, k)>>
       ELSE <<Head(s)>> \o Slice(Tail(s), k - Head(s).n)

sanitize_filename(filename) ==
  IF filename = <<>> THEN Untitled
  ELSE LET replaced == Substituted(filename)
       IN IF StrLen(replaced) > MAX_FILENAME_LENGTH
            THEN Slice(replaced, MAX_FILENAME_LENGTH)
            ELSE replaced

SanitizeInit ==
  /\ MainInit
  /\ gw = NULL
  /\ call \in {Some([title |-> t, out |-> NULL]) : t \in Titles}

\* one call sanitize_filename(title)
Sanitize ==
  /\ call # NULL /\ call[1].out = NULL
  /\ call' = Some([call[1] EXCEPT !.out = Some(sanitize_filename(call[1].title))])
  /\ UNCHANGED <<ledger, files, queue, running, hs, nextId, now, cleanup,
                 resp, gw>>

SanitizeNext == Sanitize

SanitizeSpec == SanitizeInit /\ [][SanitizeNext]_vars

\* ---------------------------------------------------------------------
\* download_file step by step, next to the sweeper: the name has passed
\* both validations; exists(), stat() and send_file are three looks at the
\* disk, and the sweeper may unlink the file between them.

\* the names asked for: those of the ledger's rows
ServedNames == {ledger[id].filename : id \in Rows(ledger)}

\* `if not file_path.exists()`: 404; began is the size found on arrival
ServeExists(f, x_sendfile) ==
  /\ gw = NULL
  /\ gw' = IF f \notin DOMAIN files
             THEN Some([filename |-> f, pc |-> "done", began |-> NULL,
                        x_sendfile |-> x_sendfile,
                        resp |-> Some(GwResponse(404, NULL, TRUE))])
             ELSE Some([filename |-> f, pc |-> "stat", began |-> Some(files[f]),
                        x_sendfile |-> x_sendfile, resp |-> NULL])
  /\ resp' = NULL
  /\ UNCHANGED <<call, ledger, files, queue, running, hs, nextId, now, cleanup>>

\* filesize = file_path.stat().st_size raises FileNotFoundError when the
\* file is gone, which `except Exception` answers with 500; size 0: 500
ServeStat ==
  /\ gw # NULL /\ gw[1].pc = "stat"
  /\ gw' = IF gw[1].filename \notin DOMAIN files \/ files[gw[1].filename] = 0
             THEN Some([gw[1] EXCEPT !.pc = "done",
                                     !.resp = Some(GwResponse(500, NULL, TRUE))])
             ELSE Some([gw[1] EXCEPT !.pc = "send"])
  /\ resp' = NULL
  /\ UNCHANGED <<call, ledger, files, queue, running, hs, nextId, now, cleanup>>

\* with USE_X_SENDFILE the answer only carries the path in a header;
\* otherwise send_file opens the file, and raises when it is gone: 500
ServeSend ==
  /\ gw # NULL /\ gw[1].pc = "send"
  /\ gw' = IF ~gw[1].x_sendfile /\ gw[1].filename \notin DOMAIN files
             THEN Some([gw[1] EXCEPT !.pc = "done",
                                     !.resp = Some(GwResponse(500, NULL, TRUE))])
             ELSE Some([gw[1] EXCEPT !.pc = "done",
                                     !.resp = Some(GwResponse(200, Some(gw[1].filename), TRUE))])
  /\ resp' = NULL
  /\ UNCHANGED <<call, ledger, files, queue, running, hs, nextId, now, cleanup>>

RaceNext ==
  \/ \E f \in ServedNames, x_sendfile \in BOOLEAN : ServeExists(f, x_sendfile)
  \/ ServeStat
  \/ ServeSend
  \/ \E offset \in LocalOffsets : CleanupFiles(offset)
  \/ CleanupRows

RaceSpec == StatusInit /\ [][RaceNext]_vars

\* ---------------------------------------------------------------------
\* The ledger lookup check_existing_download called on its own

\* one call check_existing_download(url)
Lookup(url) ==
  /\ \E found \in check_existing_download(ledger, url) :
       call' = Some([url |-> url, found |-> found])
  /\ UNCHANGED <<ledger, files, queue, running, hs, nextId, now, cleanup,
                 resp, gw>>

LookupNext == \E url \in Urls : Lookup(url)

LookupSpec == StatusInit /\ [][LookupNext]_vars

\* ---------------------------------------------------------------------
\* From the probed title to the artifact's retrieval: the filename that
\* download_video assigns, asked back from download_file

\* the characters of a string of runs
RECURSIVE Chars(_)
Chars(s) ==
  IF s = <<>> THEN <<>>
  ELSE [i \in 1..Head(s).n |-> Head(s).c] \o Chars(Tail(s))

\* download_id[:8] of some uuid4 values
IdPrefixes ==
  { <<"2", "5", "c", "e", "f", "2", "5", "c">>,
    <<"a", "d", "4", "4", "e", "f", "a", "2">> }

\* f"{safe_title}_{download_id[:8]}.mp4"
FilenameText(title, prefix) ==
  Chars(sanitize_filename(title)) \o <<"_">> \o prefix \o <<".", "m", "p", "4">>

\* POST /api/download names the artifact; the artifact is complete, on disk
\* and not empty; GET /api/downloads/<filename> is asked for that name (the
\* route hands download_file the name as assigned: the client's quoting is
\* undone by the server before the route is matched)
Retrieve(prefix) ==
  /\ call # NULL /\ call[1].out = NULL
  /\ LET filename == FilenameText(call[1].title, prefix)
     IN call' = Some([title |-> call[1].title,
                      out |-> Some(sanitize_filename(call[1].title)),
                      filename |-> filename,
                      answer |-> download_file(filename, "file", FALSE)])
  /\ UNCHANGED <<ledger, files, queue, running, hs, nextId, now, cleanup,
                 resp, gw>>

RetrieveNext == \E prefix \in IdPrefixes : Retrieve(prefix)

\* the titles the probe returns here: those of at most MaxRuns characters
\* (the validation looks at one character at a time, whatever the length)
ProbedTitles == {t \in Titles : StrLen(t) <= MaxRuns}

RetrieveInit ==
  /\ MainInit
  /\ gw = NULL
  /\ call \in {Some([title |-> t, out |-> NULL]) : t \in ProbedTitles}

RetrieveSpec == RetrieveInit /\ [][RetrieveNext]_vars

(***************************************************************************)
(* GET /api/info (video_info) and the memo of get_video_info_cached.  gw   *)
(* holds the memo: for a URL, the dict object the lru_cache keeps and the  *)
(* time it was probed at.  The key of an entry is (url, cache_key) with    *)
(* cache_key the minute of the call: an entry is found only in the minute  *)
(* it was made in.  BucketRolls is the start of a new minute inside one    *)
(* unit of the clock.  (download_video reads the same memo for the title   *)
(* only; an entry it makes is a freshly probed one.)  One client asks    *)
(* for one URL.                                                            *)
(***************************************************************************)
InfoUrl == "u1"
InfoHandler == "h1"
\* the host keeps UTC: the sweeper's local time is the ledger's time
UtcOffset == 0

\* the dict get_video_info_cached builds from a probe: no 'cached' and no
\* 'download_url' key
ProbedInfo(url) ==
  [title |-> TitleOf(url), cached |-> NULL, download_url |-> NULL]

\* lru_cache: whether the call get_video_info_cached(url, cache_key) at
\* time t finds an entry
MemoHit(memo, url, t) == url \in DOMAIN memo /\ memo[url].at = t

\* get_video_info_cached(url, cache_key) when it raises nothing: the
\* memoized object on a hit, the probe's dict on a miss
get_video_info_cached(memo, url, t) ==
  IF MemoHit(memo, url, t) THEN memo[url].info ELSE ProbedInfo(url)

\* if existing_file: info['cached'] = True; info['download_url'] = ...
\* (assignments to the object get_video_info_cached returned)
MarkedInfo(info, existing_file) ==
  IF existing_file # NULL
    THEN [info EXCEPT !.cached = Some(TRUE),
                      !.download_url =
                        Some(<<"/api/downloads/", Quoted(existing_file[1])>>)]
    ELSE info

InfoError(url) ==
  [url |-> url, code |-> 400, success |-> FALSE, data |-> NULL,
   cached |-> FALSE]

\* jsonify({'success': True, 'data': info, 'cached': existing_file is not None})
InfoResponse(url, info, existing_file) ==
  [url |-> url, code |-> 200, success |-> TRUE, data |-> Some(info),
   cached |-> existing_file # NULL]

\* one GET /api/info?url=...; probe_ok: whether a probe, if one is made,
\* returns (a probe that raises is answered 400 and memoizes nothing)
video_info(url, probe_ok) ==
  /\ IF url = NoUrl \/ (~MemoHit(gw, url, now) /\ ~probe_ok)
       THEN /\ call' = Some(InfoError(url))
            /\ gw' = gw
       ELSE \E existing_file \in check_existing_download(ledger, url) :
              LET info == MarkedInfo(get_video_info_cached(gw, url, now),
                                     existing_file)
              IN /\ gw' = (url :> [at |-> now, info |-> info]) @@ gw
                 /\ call' = Some(InfoResponse(url, info, existing_file))
  /\ resp' = NULL
  /\ UNCHANGED <<ledger, files, queue, running, hs, nextId, now, cleanup>>

\* a new minute begins: no entry made so far is found again
BucketRolls ==
  /\ gw # EmptyMap
  /\ gw' = EmptyMap
  /\ resp' = NULL
  /\ UNCHANGED <<call, ledger, files, queue, running, hs, nextId, now, cleanup>>

InfoInit ==
  /\ MainInit
  /\ call = NULL
  /\ gw = EmptyMap

InfoNext ==
  \/ \E url \in {InfoUrl, NoUrl}, probe_ok \in BOOLEAN : video_info(url, probe_ok)
  \/ BucketRolls
  \/ Request(InfoHandler, InfoUrl)
  \/ ProbeFails(InfoHandler)
  \/ Record(InfoHandler, MaxJobs, FALSE)
  \/ RecordFails(InfoHandler, MaxJobs)
  \/ Submit(InfoHandler)
  \/ WorkerStart
  \/ \E item \in running, outcome \in ToolOutcomes : WorkerRun(item, outcome)
  \/ CleanupFiles(UtcOffset)
  \/ CleanupRows
  \/ Tick

InfoSpec == InfoInit /\ [][InfoNext]_vars

(***************************************************************************)
(* Properties.                                                             *)
(***************************************************************************)
\* the work items of a download id that are queued or being executed
ItemsOf(id) ==
  {queue[i] : i \in {k \in 1..Len(queue) : queue[k].download_id = id}}
    \cup {item \in running : item.download_id = id}

\* the handlers that hold a download id between insert and submit
HoldersOf(id) == {h \in Handlers : hs[h].job = Some(id)}

\* the task of a row has been submitted and has run to its end
TaskOver(id) == ItemsOf(id) = {} /\ HoldersOf(id) = {}

\* C1: two request_download calls for the same fingerprint that are in
\* flight together, both past the ledger lookup (so neither is answered
\* cached=true), are given the same job id, so that one worker serves both.
C1_ConcurrentCallsShareJob ==
  \A h \in Handlers, g \in Handlers :
    (/\ h # g
     /\ hs[h].pc = "recorded" /\ hs[g].pc = "recorded"
     /\ UrlHash(hs[h].url) = UrlHash(hs[g].url))
      => hs[h].job = hs[g].job

\* C2 as stated: a request for a URL taken while some job of that URL is
\* completed (its row not purged) is answered cached=true with that job's
\* filename, inserts no row and submits no task.
C2_CachedWithThatJobsFilename ==
  [][\A h \in Handlers, url \in Urls :
       \A id \in CompletedFor(ledger, url) :
         Request(h, url) =>
           /\ resp' # NULL /\ resp'[1].cached
           /\ resp'[1].filename = Some(ledger[id].filename)
           /\ ledger' = ledger /\ queue' = queue /\ running' = running]_vars

\* C2 amended: such a request is answered cached=true with the filename of
\* a completed row of that URL than which none was completed later (that
\* job's own filename when it is the only or the latest one), inserts no
\* row and submits no task.
C2_CachedWithLatestFilename ==
  [][\A h \in Handlers, url \in Urls :
       (CompletedFor(ledger, url) # {} /\ Request(h, url)) =>
           /\ resp' # NULL /\ resp'[1].cached
           /\ \E id \in Rows(ledger) :
                /\ ledger[id].url = url /\ ledger[id].status = "completed"
                /\ resp'[1].filename = Some(ledger[id].filename)
                /\ \A o \in Rows(ledger) :
                     (ledger[o].url = url /\ ledger[o].status = "completed")
                       => ledger[o].completed_at[1] <= ledger[id].completed_at[1]
           /\ ledger' = ledger /\ queue' = queue /\ running' = running
           /\ hs' = hs /\ nextId' = nextId]_vars

\* C2 witness: a cached answer was just given for a URL with two completed
\* rows, and it names the one completed later
C2_Witness ==
  /\ resp # NULL /\ resp[1].cached
  /\ \E id \in Rows(ledger), o \in Rows(ledger) :
       /\ ledger[id].url = ledger[o].url
       /\ ledger[id].status = "completed" /\ ledger[o].status = "completed"
       /\ ledger[o].completed_at[1] < ledger[id].completed_at[1]
       /\ resp[1].filename = Some(ledger[id].filename)

\* C3: a cached=true answer is given only while the artifact it names is
\* on disk (resp is the answer of the step just taken; that step changed
\* neither the ledger nor the disk).
C3_CachedOnlyIfFileExists ==
  (resp # NULL /\ resp[1].cached) => resp[1].filename[1] \in DOMAIN files

\* C4: a worker whose download failed (its run ends with no file, or an
\* empty file, at the job's path) leaves the job's row `failed`.
C4_FailedDownloadMarkedFailed ==
  [][\A item \in running :
       (/\ item \notin running'
        /\ \/ item.filepath \notin DOMAIN files'
           \/ files'[item.filepath] = 0)
         => /\ item.download_id \in Rows(ledger')
            /\ ledger'[item.download_id].status = "failed"]_vars

\* C5: a job whose task was submitted and has run to its end (nothing
\* will touch its row again but the sweeper) is `completed` or `failed`:
\* no row stays `started` once its worker is through.
C5_NoRowLeftStarted ==
  \A id \in Rows(ledger) :
    TaskOver(id) => ledger[id].status \in {"completed", "failed"}

\* C6: at most MAX_CONCURRENT_DOWNLOADS download_task runs go on at once,
\* and a queued submission is started only while fewer than that many run.
C6_PoolBounded ==
  /\ [](Cardinality(running) <= MAX_CONCURRENT_DOWNLOADS)
  /\ [][(running' \ running # {})
          => Cardinality(running) < MAX_CONCURRENT_DOWNLOADS]_vars

\* C6 witness: every pool thread is busy and a submission waits in the queue
C6_Witness ==
  Cardinality(running) = MAX_CONCURRENT_DOWNLOADS /\ queue # <<>>

\* C7: a handler that has inserted its row can always submit and answer,
\* whatever the pool is doing; and when the 'Download started' answer is
\* produced the job waits in the queue with its row still `started`.
C7_ResponseNeverWaits ==
  /\ \A h \in Handlers : hs[h].pc = "recorded" => ENABLED Submit(h)
  /\ (resp # NULL /\ resp[1].download_id # NULL) =>
        /\ ledger[resp[1].download_id[1]].status = "started"
        /\ \E i \in 1..Len(queue) :
             queue[i].download_id = resp[1].download_id[1]

\* C7 witness: the answer for a new job was just produced while all the
\* pool threads were busy and the job itself was queued, its row `started`
C7_Witness ==
  /\ resp # NULL /\ resp[1].download_id # NULL
  /\ Cardinality(running) = MAX_CONCURRENT_DOWNLOADS
  /\ ItemsOf(resp[1].download_id[1]) \cap running = {}
  /\ ledger[resp[1].download_id[1]].status = "started"

\* the number of work items of a download id, queued or being executed
ItemCount(id) ==
  Cardinality({k \in 1..Len(queue) : queue[k].download_id = id})
    + Cardinality({item \in running : item.download_id = id})

\* C8: a row is created `started`, before any work item of its id exists;
\* an id has at most one work item, and while it has one its row is
\* `started`; a status changes only from `started` to a terminal status, in
\* the step in which the id's own work item ends; a terminal status stays.
C8_StatusHistoryOrdered ==
  /\ [](\A id \in JobIds :
          /\ ItemCount(id) <= 1
          /\ ItemCount(id) = 1 =>
               (id \in Rows(ledger) /\ ledger[id].status = "started"))
  /\ [][\A id \in JobIds :
          /\ (id \notin Rows(ledger) /\ id \in Rows(ledger')) =>
               (ledger'[id].status = "started" /\ ItemCount(id)' = 0)
          /\ (/\ id \in Rows(ledger) /\ id \in Rows(ledger')
              /\ ledger'[id].status # ledger[id].status) =>
               /\ ledger[id].status = "started"
               /\ ledger'[id].status \in {"completed", "failed"}
               /\ \E item \in running :
                    item.download_id = id /\ item \notin running']_vars

\* C8 witness: a row was completed by its worker while the row of another
\* job of the same URL is still `started`, its work item pending
C8_Witness ==
  \E id \in Rows(ledger), o \in Rows(ledger) :
    /\ ledger[id].status = "completed" /\ TaskOver(id)
    /\ ledger[o].url = ledger[id].url
    /\ ledger[o].status = "started" /\ ItemCount(o) = 1

\* C9: record_download_complete called with an id that has no row, or
\* whose row is already `completed`, raises an error and leaves every row
\* as it was.
C9_MarkCompletedRejects ==
  call # NULL =>
    LET before == call[1].before
        id == call[1].download_id
    IN (id \notin Rows(before) \/ before[id].status = "completed")
         => (call[1].raised /\ ledger = before)

\* a name holds a path separator
HasSeparator(s) == \E i \in 1..Len(s) : s[i] \in {"/", "\\"}

\* a name holds a `..` traversal sequence: a part between separators (or
\* the whole name) that is `..`
HasDotDot(s) ==
  \E i \in 1..Len(SplitOn(s, {"/", "\\"})) :
    SplitOn(s, {"/", "\\"})[i] = <<".", ".">>

\* C10: download_file hands out nothing whose resolved path is outside
\* the download folder, and a name that holds a path separator or a `..`
\* part, as requested or after unquote, is answered 400 with no file
\* served and the file system not asked about the file.
C10_NoServeOutsideRoot ==
  (gw # NULL /\ gw[1].resp # NULL) =>
    LET r == gw[1].resp[1]
        raw == gw[1].filename
        dec == unquote(raw)
    IN /\ r.served # NULL =>
            relative_to(r.served[1], resolve(DOWNLOAD_FOLDER))
       /\ (HasSeparator(raw) \/ HasSeparator(dec)
             \/ HasDotDot(raw) \/ HasDotDot(dec)) =>
            (r.code = 400 /\ r.served = NULL /\ ~r.touched)

\* C10 witness: a name with no separator as requested, whose decoding
\* holds a separator and a `..` part, was answered 400
C10_Witness ==
  /\ gw # NULL /\ gw[1].resp # NULL
  /\ ~HasSeparator(gw[1].filename)
  /\ HasSeparator(unquote(gw[1].filename))
  /\ HasDotDot(unquote(gw[1].filename))
  /\ gw[1].resp[1].code = 400

\* the name `..`, which the pattern lets through, was answered 400 by
\* the resolved-path test
C10_DotDotRejected ==
  /\ gw # NULL /\ gw[1].resp # NULL
  /\ gw[1].filename = <<".", ".">>
  /\ gw[1].resp[1].code = 400

\* a name with `..` inside a part is no traversal: its file was served
\* from the download folder
C10_InnerDotsServed ==
  /\ gw # NULL /\ gw[1].resp # NULL
  /\ gw[1].filename = <<"x", ".", ".">>
  /\ gw[1].resp[1].code = 200

\* the requested name passes both validations of download_file
PassesValidation(filename) ==
  /\ FILENAME_VALIDATE_PATTERN_match(unquote(filename))
  /\ relative_to(resolve(PathJoin(DOWNLOAD_FOLDER, unquote(filename))),
                 resolve(DOWNLOAD_FOLDER))

\* the requested name resolves to the download folder itself
NamesTheFolder(filename) ==
  resolve(PathJoin(DOWNLOAD_FOLDER, unquote(filename))) = resolve(DOWNLOAD_FOLDER)

\* C11: for a name that passes validation download_file answers 404 when
\* the file is absent and 500 when it is there with size zero, and hands
\* a file out when it is there with a size above zero, and only then (the
\* one other thing a valid name can denote is the folder itself, which is
\* there and not empty); a name that fails validation is answered 400
\* whatever is on disk, so validation comes before NotFound, and an absent
\* file is answered 404, never 500.
C11_ServeOutcomes ==
  (gw # NULL /\ gw[1].resp # NULL) =>
    LET r == gw[1].resp[1]
        at == gw[1].at
    IN /\ ~PassesValidation(gw[1].filename) => (r.code = 400 /\ r.served = NULL)
       /\ (PassesValidation(gw[1].filename) /\ ~NamesTheFolder(gw[1].filename)) =>
            /\ at = "absent" => (r.code = 404 /\ r.served = NULL)
            /\ at = "empty" => (r.code = 500 /\ r.served = NULL)
            /\ at = "file" => (r.code = 200 /\ r.served # NULL)
       /\ (PassesValidation(gw[1].filename) /\ NamesTheFolder(gw[1].filename)) =>
            /\ r.code \in {200, 500}
            /\ r.served # NULL <=> r.code = 200

\* C11 witness: a valid name whose file is there with size zero was
\* answered 500
C11_Witness ==
  /\ gw # NULL /\ gw[1].resp # NULL
  /\ PassesValidation(gw[1].filename)
  /\ gw[1].at = "empty"
  /\ gw[1].filename = <<"x">>
  /\ gw[1].resp[1].code = 500

\* C12: download_status only reads the ledger: a call changes no row and
\* no file; it answers 404 for an id with no row, and for an id with a row
\* that row's status and filename, with a download_url exactly when the
\* status is `completed`.
C12_StatusIsPureRead ==
  /\ [][ledger' = ledger /\ files' = files]_vars
  /\ [](call # NULL =>
          LET id == call[1].download_id
              a == call[1].answer
          IN /\ call[1].before = ledger
             /\ id \notin Rows(ledger) => a.code = 404
             /\ id \in Rows(ledger) =>
                  /\ a.code = 200
                  /\ a.status = Some(ledger[id].status)
                  /\ a.filename = Some(ledger[id].filename)
                  /\ a.download_url # NULL <=> ledger[id].status = "completed")

\* C12 witness: the status of a row that is still `started` was asked
\* for, next to a completed row whose file is on disk, and came back
\* without a download URL
C12_Witness ==
  /\ call # NULL
  /\ call[1].download_id \in Rows(ledger)
  /\ ledger[call[1].download_id].status = "started"
  /\ call[1].answer.download_url = NULL
  /\ DOMAIN files # {}

\* C13: the DELETE of a purge with cutoff c removes every row that is
\* `completed` with completed_at before c and leaves every other row, the
\* rows completed at or after c among them, as it was; a second purge
\* with the same cutoff right after it removes no row and no file.
C13_PurgeDeletesOldOnly ==
  [][(cleanup # NULL /\ cleanup' = NULL) =>
       LET c == cleanup[1]
       IN /\ Rows(ledger') \subseteq Rows(ledger)
          /\ \A id \in Rows(ledger) :
               IF /\ ledger[id].status = "completed"
                  /\ ledger[id].completed_at[1] < c
                 THEN id \notin Rows(ledger')
                 ELSE id \in Rows(ledger') /\ ledger'[id] = ledger[id]
          /\ PurgeRows(ledger', c) = ledger'
          /\ PurgeFiles(ledger', files', c) = files']_vars

\* C13 witness: a purge has unlinked its files and is about to delete its
\* rows, with a row completed before the cutoff and a row completed at or
\* after the cutoff in the ledger
C13_Witness ==
  /\ cleanup # NULL
  /\ \E id \in Rows(ledger) :
       ledger[id].status = "completed" /\ ledger[id].completed_at[1] < cleanup[1]
  /\ \E id \in Rows(ledger) :
       ledger[id].status = "completed" /\ ledger[id].completed_at[1] >= cleanup[1]

\* C14: two different rows of the ledger never carry the same artifact
\* filename, so no two jobs' workers are given the same path to write.
C14_DistinctFilenames ==
  \A id \in Rows(ledger), o \in Rows(ledger) :
    id # o => ledger[id].filename # ledger[o].filename

\* C15: sanitize_filename applied to its own output returns that output,
\* and its output is at most 100 characters long.
C15_SanitizeIdempotent ==
  (call # NULL /\ call[1].out # NULL) =>
    /\ sanitize_filename(call[1].out[1]) = call[1].out[1]
    /\ StrLen(call[1].out[1]) <= 100

\* C15 witness: a title of more than 100 characters with a character that
\* is replaced was cut to 100 characters
C15_Witness ==
  /\ call # NULL /\ call[1].out # NULL
  /\ StrLen(call[1].title) > 100
  /\ \E i \in 1..Len(call[1].title) : call[1].title[i].c \in SanitizedChars
  /\ StrLen(call[1].out[1]) = 100
  /\ call[1].out[1] # call[1].title

\* C16: sanitize_filename returns "untitled" for the empty title and for
\* a title made only of characters it does not keep, and never returns
\* the empty string.
C16_PlaceholderForAllInvalid ==
  (call # NULL /\ call[1].out # NULL) =>
    /\ call[1].out[1] # <<>>
    /\ (\A i \in 1..Len(call[1].title) : call[1].title[i].c \in SanitizedChars)
         => call[1].out[1] = Untitled

\* C17: every `completed` row records a size above zero: a row is marked
\* only for an artifact that is on disk and not empty.
C17_CompletedHasContent ==
  \A id \in Rows(ledger) :
    ledger[id].status = "completed" =>
      (ledger[id].filesize # NULL /\ ledger[id].filesize[1] > 0)

\* C19: an unlink that raises does not end the sweep: every other
\* selected file is unlinked, the sweep goes on to its DELETE, and the
\* DELETE removes every selected row, the rows whose file could not be
\* unlinked among them.
C19_PurgeSurvivesUnlinkError ==
  [][/\ (cleanup = NULL /\ cleanup' # NULL) =>
          /\ cleanup'[2] \subseteq DOMAIN files'
          /\ \A id \in Rows(ledger) :
               (/\ ledger[id].status = "completed"
                /\ ledger[id].completed_at[1] < cleanup'[1]
                /\ ledger[id].filename \in DOMAIN files')
                 => ledger[id].filename \in cleanup'[2]
     /\ (cleanup # NULL /\ cleanup' = NULL) =>
          \A id \in Rows(ledger) :
            (/\ ledger[id].status = "completed"
             /\ ledger[id].completed_at[1] < cleanup[1])
              => id \notin Rows(ledger')]_vars

\* C19 witness: two jobs were completed and swept together; the unlink of
\* one file raised, the other file is gone, and both rows are deleted
C19_Witness ==
  /\ cleanup = NULL
  /\ nextId > MaxJobs
  /\ Rows(ledger) = {}
  /\ Cardinality(DOMAIN files) = 1
  /\ queue = <<>> /\ running = {}

\* C20: a step removes a row only if it is the DELETE of the sweeper and
\* the row is `completed` with completed_at more than CLEANUP_OLDER_THAN
\* before now; no step of a request, a worker or the clock removes a row,
\* and the row of a job whose work item is queued or running exists.
C20_RowsRemovedOnlyWhenOld ==
  /\ [][\A id \in Rows(ledger) :
          id \notin Rows(ledger') =>
            /\ cleanup # NULL /\ cleanup' = NULL
            /\ ledger[id].status = "completed"
            /\ ledger[id].completed_at[1] < now - CLEANUP_OLDER_THAN]_vars
  /\ [](\A id \in JobIds : ItemCount(id) > 0 => id \in Rows(ledger))

\* C18: a download_file call for a file that was not an empty file when
\* the call arrived ends with the file handed out (200) or with 404,
\* whatever the sweeper does meanwhile.
C18_RaceEndsIn200Or404 ==
  (gw # NULL /\ gw[1].resp # NULL /\ gw[1].began # Some(0)) =>
    gw[1].resp[1].code \in {200, 404}

\* C21: check_existing_download returns None exactly when the ledger has
\* no `completed` row of the URL's fingerprint, and otherwise the filename
\* of a `completed` row of that fingerprint than which none was completed
\* later; a `started` row is never what it returns.
C21_LookupReturnsLatest ==
  call # NULL =>
    LET hash == UrlHash(call[1].url)
        done == {id \in Rows(ledger) :
                   ledger[id].url_hash = hash /\ ledger[id].status = "completed"}
    IN /\ call[1].found = NULL <=> done = {}
       /\ call[1].found # NULL =>
            \E id \in done :
              /\ ledger[id].filename = call[1].found[1]
              /\ \A o \in done :
                   ledger[o].completed_at[1] <= ledger[id].completed_at[1]

\* C21 witness: the fingerprint has two completed rows, completed at
\* different times, and the lookup returned a filename
C21_Witness ==
  /\ call # NULL /\ call[1].found # NULL
  /\ \E id \in Rows(ledger), o \in Rows(ledger) :
       /\ ledger[id].status = "completed" /\ ledger[o].status = "completed"
       /\ ledger[id].url_hash = UrlHash(call[1].url)
       /\ ledger[o].url_hash = UrlHash(call[1].url)
       /\ ledger[o].completed_at[1] < ledger[id].completed_at[1]

\* C22: the filename download_video assigns for a title passes the
\* validation of download_file: the artifact, on disk and not empty, is
\* handed out (200) when it is asked for under that name.
C22_AssignedNameRetrievable ==
  (call # NULL /\ call[1].out # NULL) => call[1].answer.code = 200
\* C23: a request_download that fails before submission (no URL, the probe
\* raises, or record_download_start raises) is answered with an error,
\* and its step changes neither the ledger nor the pool's work; and a work
\* item joins the queue only when its row is already in the ledger,
\* `started`.
C23_FailureLeavesNoTrace ==
  [][/\ (resp' # NULL /\ ~resp'[1].success) =>
          (/\ resp'[1].code \in {400, 500}
           /\ ledger' = ledger /\ queue' = queue /\ running' = running)
     /\ Len(queue') > Len(queue) =>
          LET item == queue'[Len(queue')]
          IN /\ item.download_id \in Rows(ledger)
             /\ ledger[item.download_id].status = "started"
             /\ ledger' = ledger]_vars

\* C23 witness: a request has just been answered 500 while the task of an
\* earlier request, whose row is `started`, waits in the queue
C23_Witness ==
  /\ resp # NULL /\ resp[1].code = 500
  /\ queue # <<>>
  /\ \A i \in 1..Len(queue) :
       /\ queue[i].download_id \in Rows(ledger)
       /\ ledger[queue[i].download_id].status = "started"
\* C24: in every successful /info response, data.cached and
\* data.download_url are present exactly when the top-level `cached` flag
\* is true, i.e. when the ledger had a completed row of the URL at the
\* time of the call.
C24_MemoNeverAuthoritative ==
  (call # NULL /\ call[1].success) =>
    /\ (call[1].data[1].cached # NULL) <=> call[1].cached
    /\ (call[1].data[1].download_url # NULL) <=> call[1].cached

====
